---- MODULE Spec2Model ----
(***************************************************************************)
(* Model of service/rate.go of the Bolt group-order bot: the handling of   *)
(* one chat message carrying a Wolt group link (HandleLinkMessage), the    *)
(* registry of orders being handled (currentlyWorkingOrders), the rate     *)
(* computation (getRateForGroup, buildGroupRates), the schedule gate       *)
(* (shouldHandleOrder) and the link parser (getWoltGroupID).               *)
(*                                                                         *)
(* Strings that are compared or sorted (person names) are sequences of     *)
(* character codes.  Money (float64 in the source) is an exact rational    *)
(* held as an integer number of 1/Scale NIS; Scale is divisible by every   *)
(* head count the model reaches, so the division of the delivery rate is   *)
(* exact and floating-point rounding is abstracted away.                   *)
(***************************************************************************)
EXTENDS Integers, Sequences, FiniteSets, TLC

\* ------------------------------------------------------------------ bounds
\* handler goroutines that may run HandleLinkMessage at the same time
Procs == {"h1", "h2"}
\* invocations of HandleLinkMessage started in one behaviour
MaxInvocations == 2
\* people in the map returned by RateByPerson
MaxPeople == 2
\* largest raw amount of one person, in NIS
MaxAmount == 1
\* largest delivery rate, in NIS
MaxFee == 2
\* largest number of users ListUsers returns for one name
MaxMatches == 2
\* links in one message
MaxLinks == 3

RECURSIVE Factorial(_)
Factorial(n) == IF n <= 1 THEN 1 ELSE n * Factorial(n - 1)

\* money unit: 1 NIS = Scale units
Scale == Factorial(MaxPeople + 1)

\* a missing string (no identifier)
Nil == "nil"

\* a pointer is a sequence of at most one element; the nil pointer is empty
NilPtr == <<>>

Ptr(x) == <<x>>

\* person names: "a", "ab", "b" as character codes
Names == {<<1>>, <<1, 2>>, <<2>>}

\* ------------------------------------------------------- sort.Strings
\* Go's string order: bytewise lexicographic, a proper prefix comes first
RECURSIVE StrLess(_, _)
StrLess(a, b) ==
    IF a = <<>> THEN b # <<>>
    ELSE IF b = <<>> THEN FALSE
    ELSE IF a[1] # b[1] THEN a[1] < b[1]
    ELSE StrLess(Tail(a), Tail(b))

RECURSIVE InsertSorted(_, _)
InsertSorted(x, s) ==
    IF s = <<>> THEN <<x>>
    ELSE IF StrLess(s[1], x) THEN <<s[1]>> \o InsertSorted(x, Tail(s))
    ELSE <<x>> \o s

RECURSIVE SortStrings(_)
SortStrings(s) ==
    IF s = <<>> THEN <<>> ELSE InsertSorted(s[1], SortStrings(Tail(s)))

\* the keys of a map in an order a range loop may visit them (here: descending;
\* the order does not matter to a caller that sorts)
RECURSIVE RangeKeys(_)
RangeKeys(S) ==
    IF S = {} THEN <<>>
    ELSE LET k == CHOOSE x \in S : \A y \in S : x = y \/ ~StrLess(x, y)
         IN  <<k>> \o RangeKeys(S \ {k})

\* a mutation of getSortedKeys: the sort.Strings call is dropped
getSortedKeysNoSort(m) == RangeKeys(DOMAIN m)

getSortedKeys(m) == SortStrings(RangeKeys(DOMAIN m))

\* ------------------------------------------------------- user directory
\* the k-th user the directory returns for a name
UserOf(person, k) ==
    [TransportID |-> <<person, k>>,
     PaymentPreferences |-> IF k = 1 THEN <<"bit", "paybox">> ELSE <<>>]

\* what ListUsers answers for one name: an error, or the users it found
ListUsersAnswers ==
    {[err |-> TRUE, n |-> 0]} \cup {[err |-> FALSE, n |-> k] : k \in 0..MaxMatches}

\* a directory: one answer per name
Directories == [Names -> ListUsersAnswers]

ListUsers(dir, person) ==
    [err |-> dir[person].err,
     users |-> [i \in 1..dir[person].n |-> UserOf(person, i)]]

\* the user buildGroupRates attaches to a person (lines 169-186)
ResolveUser(dir, person) ==
    LET res == ListUsers(dir, person)
    IN  IF res.err THEN NilPtr
        ELSE IF Len(res.users) = 0 THEN NilPtr
        ELSE IF Len(res.users) # 1 THEN NilPtr
        ELSE Ptr(res.users[1])

\* ------------------------------------------------------- buildGroupRates
\* lines 152-155: the host is added to the map with amount 0
WithHost(woltRates, host) ==
    IF host \in DOMAIN woltRates THEN woltRates ELSE woltRates @@ (host :> 0)

buildGroupRates(woltRates, host, deliveryRate, dir) ==
    LET m == WithHost(woltRates, host)
        sortedKeys == getSortedKeys(m)
    IN  [Rates |-> [i \in 1..Len(sortedKeys) |->
                      [WoltName |-> sortedKeys[i],
                       User |-> ResolveUser(dir, sortedKeys[i]),
                       Amount |-> m[sortedKeys[i]]]],
         HostWoltUser |-> host,
         HostUser |-> ResolveUser(dir, host),
         DeliveryRate |-> deliveryRate]

EmptyGroupRate ==
    [Rates |-> <<>>, HostWoltUser |-> <<>>, HostUser |-> NilPtr, DeliveryRate |-> 0]

\* ------------------------------------------- getRateForGroup, lines 285-296
\* line 292: float64(deliveryRate) / float64(len(rates)); with no person the
\* quotient is +Inf or NaN, which line 293's loop never uses (0 stands for it)
pricePerPerson(deliveryRate, rates) ==
    LET n == Cardinality(DOMAIN rates)
    IN  IF n = 0 THEN 0
        ELSE (deliveryRate * Scale) \div n

\* lines 293-295
AddDelivery(rates, deliveryRate) ==
    [person \in DOMAIN rates |->
        rates[person] + pricePerPerson(deliveryRate, rates)]

\* a mutation of RatesWithDelivery: the host is added to the map before the
\* delivery rate is divided, so a host who took nothing pays a share
RatesWithDeliveryHostShares(rates, host, delivery, dir) ==
    IF delivery.err
    THEN buildGroupRates(rates, host, 0, dir)
    ELSE buildGroupRates(AddDelivery(WithHost(rates, host), delivery.rate),
                         host, delivery.rate, dir)

\* lines 285-296: delivery is what CalculateDeliveryRate returned
RatesWithDelivery(rates, host, delivery, dir) ==
    IF delivery.err
    THEN buildGroupRates(rates, host, 0, dir)
    ELSE buildGroupRates(AddDelivery(rates, delivery.rate), host, delivery.rate, dir)

\* ------------------------------------------------------- getWoltGroupID
\* A URL is its path segments and whether it ends in "/".  groupLinkRe (line 16)
\* is anchored at the end only: "/group" or "/group-order", "/", an identifier
\* of [A-Z0-9]+, then an optional "/join" and an optional "/".
OrderIDs == {"A1", "B2"}

IsGroupWord(seg) == seg \in {"group", "group-order"}

\* the identifier groupLinkRe extracts from a URL, or Nil when it does not match
groupLinkRe(url) ==
    LET segs == url.segs
        n == Len(segs)
    IN  IF n >= 2 /\ IsGroupWord(segs[n - 1]) /\ segs[n] \in OrderIDs
        THEN segs[n]
        ELSE IF n >= 3 /\ IsGroupWord(segs[n - 2]) /\ segs[n - 1] \in OrderIDs
                /\ segs[n] = "join"
        THEN segs[n - 1]
        ELSE Nil

\* a mutation of getWoltGroupID: a wolt.com link whose URL does not match ends
\* the scan (return nil for the continue of line 143)
RECURSIVE getWoltGroupIDStopAtMismatch(_)
getWoltGroupIDStopAtMismatch(links) ==
    IF links = <<>> THEN Nil
    ELSE IF links[1].Domain # "wolt.com"
    THEN getWoltGroupIDStopAtMismatch(Tail(links))
    ELSE IF groupLinkRe(links[1].URL) = Nil THEN Nil
    ELSE groupLinkRe(links[1].URL)

\* lines 132-149: the first link of domain wolt.com whose URL matches
RECURSIVE getWoltGroupID(_)
getWoltGroupID(links) ==
    IF links = <<>> THEN Nil
    ELSE IF links[1].Domain # "wolt.com" THEN getWoltGroupID(Tail(links))
    ELSE IF groupLinkRe(links[1].URL) = Nil THEN getWoltGroupID(Tail(links))
    ELSE groupLinkRe(links[1].URL)

Url(segs, slash) == [segs |-> segs, slash |-> slash]

Link(domain, url) == [Domain |-> domain, URL |-> url]

\* the link lists of the requests the handlers receive
Requests ==
    { <<>>,
      << Link("example.com", Url(<<"group", "A1">>, FALSE)) >>,
      << Link("wolt.com", Url(<<"en", "venue">>, FALSE)),
         Link("wolt.com", Url(<<"en", "group", "A1", "join">>, TRUE)) >>,
      << Link("wolt.com", Url(<<"group-order", "A1">>, FALSE)),
         Link("wolt.com", Url(<<"group", "B2">>, FALSE)) >>,
      << Link("wolt.com", Url(<<"group", "B2">>, TRUE)) >> }

\* ------------------------------------------------------- shouldHandleOrder
MinutesPerDay == 24 * 60

\* time.Time.In: the same instant read in a zone offset minutes east of the clock's
InZone(now, offset) ==
    LET t == (now.hour * 60 + now.minute + offset) % MinutesPerDay
    IN  [hour |-> t \div 60, minute |-> t % 60]

\* a mutation of shouldHandleOrder: the minute of the cutoff itself is still
\* in time (> for the >= of line 235)
shouldHandleOrderCutoffMinuteInTime(cutoff, tz, now) ==
    IF cutoff.zero THEN TRUE
    ELSE LET currentTime == IF tz # NilPtr THEN InZone(now, tz[1]) ELSE now
         IN  IF \/ currentTime.hour > cutoff.hour
                \/ (currentTime.hour = cutoff.hour
                    /\ currentTime.minute > cutoff.minute)
             THEN FALSE
             ELSE TRUE

\* lines 224-240; cutoff.zero says dontJoinAfter is the zero time, tz is a
\* pointer to the configured zone's offset
shouldHandleOrder(cutoff, tz, now) ==
    IF cutoff.zero THEN TRUE
    ELSE LET currentTime == IF tz # NilPtr THEN InZone(now, tz[1]) ELSE now
         IN  IF \/ currentTime.hour > cutoff.hour
                \/ (currentTime.hour = cutoff.hour
                    /\ currentTime.minute >= cutoff.minute)
             THEN FALSE
             ELSE TRUE

Time(h, m) == [hour |-> h, minute |-> m]

Cutoff(h, m) == [zero |-> FALSE, hour |-> h, minute |-> m]

NoCutoff == [zero |-> TRUE, hour |-> 0, minute |-> 0]

\* the service configurations: no cutoff, or 18:00 in a zone one hour east
Configs ==
    { [dontJoinAfter |-> NoCutoff, dontJoinAfterTZ |-> NilPtr],
      [dontJoinAfter |-> Cutoff(18, 0), dontJoinAfterTZ |-> Ptr(60)] }

\* the configuration of the service the handlers run in
SessionConfig == [dontJoinAfter |-> Cutoff(18, 0), dontJoinAfterTZ |-> Ptr(60)]

\* the wall-clock readings of time.Now()
Clock == {Time(16, 59), Time(17, 0), Time(23, 30)}

\* ------------------------------------------------------- buildRatesMessage
\* fmt's %.2f of an amount: hundredths of a NIS, rounded to nearest, ties to even
Format2(amount) ==
    LET q == (amount * 100) \div Scale
        r == (amount * 100) % Scale
    IN  IF 2 * r > Scale \/ (2 * r = Scale /\ q % 2 = 1) THEN q + 1 ELSE q

\* lines 192-222: the message as its parts, in the order they are written
buildRatesMessage(gr, groupID) ==
    [header |-> [id |-> groupID, delivery |-> gr.DeliveryRate],
     lines |-> [i \in 1..Len(gr.Rates) |->
                  [userID |-> IF gr.Rates[i].User # NilPtr
                              THEN <<gr.Rates[i].User[1].TransportID,
                                     gr.Rates[i].WoltName>>
                              ELSE <<gr.Rates[i].WoltName>>,
                   amount |-> Format2(gr.Rates[i].Amount)]],
     payTo |-> IF gr.HostUser # NilPtr THEN <<gr.HostUser[1].TransportID>>
               ELSE <<gr.HostWoltUser>>,
     payments |-> IF gr.HostUser # NilPtr
                     /\ Len(gr.HostUser[1].PaymentPreferences) > 0
                  THEN gr.HostUser[1].PaymentPreferences ELSE <<>>]

\* ------------------------------------------------------- errors
\* An error is the sequence of the fragments of its text, outermost first;
\* nil is the empty sequence.
NoError == <<>>

errWontJoin == <<"wont join because the channel is not accessible">>

errNotInTime == <<"order not in tracking time">>

\* fmt.Errorf("prefix: %w", err)
Wrap(prefix, err) == <<prefix>> \o err

\* strings.Contains(err.Error(), marker)
Contains(err, marker) == \E i \in 1..Len(err) : err[i] = marker

\* an error of the order provider that carries no marker the handler looks for
ProviderError == <<"provider error">>

\* what WaitUntilFinished returns: nil when the group is locked, the canceled
\* error, the timed-out error, or another failure
WaitResults ==
    {NoError, <<"order canceled">>, <<"context canceled while waiting">>,
     ProviderError}

\* how monitorDelivery ends: the order is done (nil); the order was canceled,
\* which the monitor reports to the chat before it stops (nil); the deadline of
\* its context elapsed (the timed-out error); or another failure
MonitorDeliveryResults ==
    { [ended |-> "monitorDelivery: done", notices |-> <<>>, err |-> NoError],
      [ended |-> "monitorDelivery: order canceled",
       notices |-> <<"inform delivery canceled">>, err |-> NoError],
      [ended |-> "monitorDelivery: deadline elapsed", notices |-> <<>>,
       err |-> <<"context canceled while waiting">>],
      [ended |-> "monitorDelivery: failed", notices |-> <<>>,
       err |-> ProviderError] }

\* ------------------------------------------------------- inputs
RawAmounts == {a * Scale : a \in 0..MaxAmount}

\* the maps RateByPerson can return
RateMaps ==
    UNION {[S -> RawAmounts] : S \in {T \in SUBSET Names : Cardinality(T) <= MaxPeople}}

\* what CalculateDeliveryRate can return
Deliveries ==
    {[err |-> TRUE, rate |-> 0]} \cup {[err |-> FALSE, rate |-> f] : f \in 0..MaxFee}

\* the details the provider holds of each order: in A1 host "a" took nothing
\* and "b" took 1 NIS; in B2 host "a" took 1 NIS and "ab" took nothing
OrderBook(id) ==
    IF id = "A1" THEN [rates |-> (<<2>> :> Scale), Host |-> <<1>>]
    ELSE [rates |-> (<<1>> :> Scale) @@ (<<1, 2>> :> 0), Host |-> <<1>>]

SessionDeliveries == {d \in Deliveries : d.err \/ d.rate = MaxFee}

\* the user directory during the sessions: "a" is known once, "ab" is unknown,
\* "b" is known twice
SessionDirectory ==
    (<<1>> :> [err |-> FALSE, n |-> 1]) @@ (<<1, 2>> :> [err |-> FALSE, n |-> 0])
    @@ (<<2>> :> [err |-> FALSE, n |-> 2])

NoDetails == [rates |-> <<>>, Host |-> <<>>]

\* ------------------------------------------------------- state
VARIABLES
    cfg,        \* h.cfg, h.dontJoinAfter, h.dontJoinAfterTZ
    registry,   \* the keys of h.currentlyWorkingOrders
    started,    \* invocations of HandleLinkMessage started so far
    pc,         \* where each handler is in HandleLinkMessage
    inv,        \* the ordinal of the invocation each handler runs
    groupID,    \* groupID.ID of the invocation, Nil when no link matched
    admitted,   \* the invocation has passed line 65 (its Delete is deferred)
    ret,        \* the error HandleLinkMessage returns
    log,        \* the calls the invocation made to its collaborators, in order,
                \* a failed call followed by an entry that says so
    details,    \* what order.Details() returned
    rateErr,    \* the error getRateForGroup returns
    groupRate,  \* the named result of getRateForGroup
    monitor,    \* the venue monitor's context: "none", "running", "canceled"
    ctx,        \* the context of the readiness wait: "none", "live", "done"
    published,  \* the rates message handed to informEvent
    saveTask,   \* the saveOrderAsync goroutine the invocation started
    call,       \* a function of the service under evaluation, with its arguments
    result      \* what the function returned

\* what one invocation holds on its stack
frame == <<inv, groupID, admitted, ret, log, details, rateErr, groupRate,
           monitor, ctx, published, saveTask>>

\* one evaluation of a function
eval == <<call, result>>

vars == <<cfg, registry, started, pc, frame, eval>>

\* the key groupID.ID (a string) and the key groupID (the pointer made by the
\* invocation's getWoltGroupID call)
IDKey(id) == [kind |-> "string", id |-> id, inv |-> 0]

PtrKey(id, n) == [kind |-> "pointer", id |-> id, inv |-> n]

\* no goroutine, and the goroutine go saveOrderAsync(order, groupRate, receiver)
NoTask == [state |-> "none", rates |-> <<>>]

Task(rates) == [state |-> "started", rates |-> rates]

NoCall == [fn |-> "none"]

NoResult == [fn |-> "none"]

\* the service after construction: nothing is being handled
Idle ==
    /\ cfg = SessionConfig
    /\ registry = {}
    /\ started = 0
    /\ pc = [p \in Procs |-> "idle"]
    /\ inv = [p \in Procs |-> 0]
    /\ groupID = [p \in Procs |-> Nil]
    /\ admitted = [p \in Procs |-> FALSE]
    /\ ret = [p \in Procs |-> NoError]
    /\ log = [p \in Procs |-> <<>>]
    /\ details = [p \in Procs |-> NoDetails]
    /\ rateErr = [p \in Procs |-> NoError]
    /\ groupRate = [p \in Procs |-> EmptyGroupRate]
    /\ monitor = [p \in Procs |-> "none"]
    /\ ctx = [p \in Procs |-> "none"]
    /\ published = [p \in Procs |-> NilPtr]
    /\ saveTask = [p \in Procs |-> NoTask]

Init ==
    /\ Idle
    /\ call = NoCall
    /\ result = NoResult

\* the handler calls collaborators
Calls(p, whats) == log' = [log EXCEPT ![p] = @ \o whats]

Goto(p, where) == pc' = [pc EXCEPT ![p] = where]

\* a return statement of HandleLinkMessage
Return(p, err) ==
    /\ ret' = [ret EXCEPT ![p] = err]
    /\ Goto(p, "return")

\* ------------------------------------------------------- HandleLinkMessage
\* lines 52-58: a handler receives a request; with no matching link it returns
Start(p) ==
    /\ pc[p] = "idle"
    /\ started < MaxInvocations
    /\ started' = started + 1
    /\ inv' = [inv EXCEPT ![p] = started + 1]
    /\ \E links \in Requests :
         LET id == getWoltGroupID(links)
         IN  /\ groupID' = [groupID EXCEPT ![p] = id]
             /\ IF id = Nil THEN Return(p, NoError)
                ELSE Goto(p, "load") /\ UNCHANGED ret
    /\ UNCHANGED <<cfg, eval, registry, admitted, log, details, rateErr, groupRate,
                   monitor, ctx, published, saveTask>>

\* a mutation of Load: the handler reacts to the message before it gives up
LoadReactFirst(p) ==
    /\ pc[p] = "load"
    /\ IF IDKey(groupID[p]) \in registry
       THEN Calls(p, <<"AddReaction">>) /\ Return(p, NoError)
       ELSE Goto(p, "store") /\ UNCHANGED <<ret, log>>
    /\ UNCHANGED <<cfg, eval, registry, started, inv, groupID, admitted, details,
                   rateErr, groupRate, monitor, ctx, published, saveTask>>

\* lines 60-63: currentlyWorkingOrders.Load(groupID.ID)
Load(p) ==
    /\ pc[p] = "load"
    /\ IF IDKey(groupID[p]) \in registry
       THEN Return(p, NoError)
       ELSE Goto(p, "store") /\ UNCHANGED ret
    /\ UNCHANGED <<cfg, eval, registry, started, inv, groupID, admitted, log, details,
                   rateErr, groupRate, monitor, ctx, published, saveTask>>

\* lines 64-65: currentlyWorkingOrders.Store(groupID.ID, nil); the Delete is deferred
Store(p) ==
    /\ pc[p] = "store"
    /\ registry' = registry \cup {IDKey(groupID[p])}
    /\ admitted' = [admitted EXCEPT ![p] = TRUE]
    /\ Goto(p, "react")
    /\ UNCHANGED <<cfg, eval, started, inv, groupID, ret, log, details, rateErr,
                   groupRate, monitor, ctx, published, saveTask>>

\* lines 67-70
AddReaction(p) ==
    /\ pc[p] = "react"
    /\ \E ok \in BOOLEAN :
         IF ok THEN Calls(p, <<"AddReaction">>) /\ Goto(p, "gate") /\ UNCHANGED ret
         ELSE Calls(p, <<"AddReaction", "AddReaction error">>) /\ Return(p, errWontJoin)
    /\ UNCHANGED <<cfg, eval, registry, started, inv, groupID, admitted, details,
                   rateErr, groupRate, monitor, ctx, published, saveTask>>

\* a mutation of Gate: an order outside the window ends the handling with no error
GateSilent(p) ==
    /\ pc[p] = "gate"
    /\ \E now \in Clock :
         IF shouldHandleOrder(cfg.dontJoinAfter, cfg.dontJoinAfterTZ, now)
         THEN Goto(p, "join") /\ UNCHANGED <<ret, log>>
         ELSE Calls(p, <<"inform too late">>) /\ Return(p, NoError)
    /\ UNCHANGED <<cfg, eval, registry, started, inv, groupID, admitted, details,
                   rateErr, groupRate, monitor, ctx, published, saveTask>>

\* lines 72-80
Gate(p) ==
    /\ pc[p] = "gate"
    /\ \E now \in Clock, informed \in BOOLEAN :
         IF shouldHandleOrder(cfg.dontJoinAfter, cfg.dontJoinAfterTZ, now)
         THEN Goto(p, "join") /\ UNCHANGED <<ret, log>>
         ELSE /\ Calls(p, <<"inform too late">>)
              /\ Return(p, IF informed THEN errNotInTime ELSE errWontJoin)
    /\ UNCHANGED <<cfg, eval, registry, started, inv, groupID, admitted, details,
                   rateErr, groupRate, monitor, ctx, published, saveTask>>

\* a mutation of Join: a failed join is reported to the chat and the handling
\* goes on (the return of line 85 is missing)
JoinFailureReportedOnly(p) ==
    /\ pc[p] = "join"
    /\ \E ok \in BOOLEAN :
         /\ IF ok THEN Calls(p, <<"joinGroupOrder">>)
            ELSE Calls(p, <<"joinGroupOrder", "joinGroupOrder error",
                            "inform join error">>)
         /\ Goto(p, "storeOrder")
         /\ UNCHANGED ret
    /\ UNCHANGED <<cfg, eval, registry, started, inv, groupID, admitted, details,
                   rateErr, groupRate, monitor, ctx, published, saveTask>>

\* lines 82-86
Join(p) ==
    /\ pc[p] = "join"
    /\ \E ok \in BOOLEAN :
         IF ok
         THEN /\ Calls(p, <<"joinGroupOrder">>)
              /\ Goto(p, "storeOrder")
              /\ UNCHANGED ret
         ELSE /\ Calls(p, <<"joinGroupOrder", "joinGroupOrder error",
                             "inform join error">>)
              /\ Return(p, Wrap("join group order", ProviderError))
    /\ UNCHANGED <<cfg, eval, registry, started, inv, groupID, admitted, details,
                   rateErr, groupRate, monitor, ctx, published, saveTask>>

\* line 87: currentlyWorkingOrders.Store(groupID, order): the key is the pointer
\* groupID, not the string groupID.ID
StoreOrder(p) ==
    /\ pc[p] = "storeOrder"
    /\ registry' = registry \cup {PtrKey(groupID[p], inv[p])}
    /\ Goto(p, "venue")
    /\ UNCHANGED <<cfg, eval, started, frame>>

\* lines 88-91
Venue(p) ==
    /\ pc[p] = "venue"
    /\ \E ok \in BOOLEAN :
         IF ok THEN Calls(p, <<"Venue", "inform joined">>)
         ELSE Calls(p, <<"Venue">>)
    /\ Goto(p, "markAsReady")
    /\ UNCHANGED <<cfg, eval, registry, started, inv, groupID, admitted, ret, details,
                   rateErr, groupRate, monitor, ctx, published, saveTask>>

\* ------------------------------------------------------- getRateForGroup
\* a return statement of getRateForGroup: the deferred function of lines 256-258
\* runs next
RateReturn(p, gr, err) ==
    /\ groupRate' = [groupRate EXCEPT ![p] = gr]
    /\ rateErr' = [rateErr EXCEPT ![p] = err]
    /\ Goto(p, "deferSave")

\* a mutation of MarkAsReady: a failed MarkAsReady is tried a second time
MarkAsReadyRetried(p) ==
    /\ pc[p] = "markAsReady"
    /\ Calls(p, <<"MarkAsReady">>)
    /\ \E ok \in BOOLEAN :
         IF ok THEN Goto(p, "startMonitor") /\ UNCHANGED <<groupRate, rateErr>>
         ELSE IF \A i \in 1..Len(log[p]) : log[p][i] # "MarkAsReady"
         THEN UNCHANGED <<pc, groupRate, rateErr>>
         ELSE RateReturn(p, EmptyGroupRate, Wrap("mark as ready in group", ProviderError))
    /\ UNCHANGED <<cfg, eval, registry, started, inv, groupID, admitted, ret, details,
                   monitor, ctx, published, saveTask>>

\* lines 260-262
MarkAsReady(p) ==
    /\ pc[p] = "markAsReady"
    /\ Calls(p, <<"MarkAsReady">>)
    /\ \E ok \in BOOLEAN :
         IF ok THEN Goto(p, "startMonitor") /\ UNCHANGED <<groupRate, rateErr>>
         ELSE RateReturn(p, EmptyGroupRate, Wrap("mark as ready in group", ProviderError))
    /\ UNCHANGED <<cfg, eval, registry, started, inv, groupID, admitted, ret, details,
                   monitor, ctx, published, saveTask>>

\* lines 264-268: the wait's context is made (its cancel is deferred), the
\* monitor's context is derived from it and the monitor is started
StartMonitor(p) ==
    /\ pc[p] = "startMonitor"
    /\ ctx' = [ctx EXCEPT ![p] = "live"]
    /\ monitor' = [monitor EXCEPT ![p] = "running"]
    /\ Calls(p, <<"go monitorVenue">>)
    /\ Goto(p, "wait")
    /\ UNCHANGED <<cfg, eval, registry, started, inv, groupID, admitted, ret, details,
                   rateErr, groupRate, published, saveTask>>

\* a mutation of Wait: monitorCancel is called only when the wait succeeded
\* (line 270 is missing)
WaitNoCancelOnError(p) ==
    /\ pc[p] = "wait"
    /\ \E err \in WaitResults :
         IF err = NoError
         THEN /\ Calls(p, <<"WaitUntilFinished", "monitorCancel">>)
              /\ monitor' = [monitor EXCEPT ![p] = "canceled"]
              /\ Goto(p, "details")
              /\ UNCHANGED <<groupRate, rateErr>>
         ELSE /\ Calls(p, <<"WaitUntilFinished">>)
              /\ UNCHANGED monitor
              /\ RateReturn(p, EmptyGroupRate, Wrap("wait for group to finish", err))
    /\ UNCHANGED <<cfg, eval, registry, started, inv, groupID, admitted, ret, details,
                   ctx, published, saveTask>>

\* lines 269-273: monitorCancel is called whatever the wait returns
Wait(p) ==
    /\ pc[p] = "wait"
    /\ Calls(p, <<"WaitUntilFinished", "monitorCancel">>)
    /\ monitor' = [monitor EXCEPT ![p] = "canceled"]
    /\ \E err \in WaitResults :
         IF err = NoError THEN Goto(p, "details") /\ UNCHANGED <<groupRate, rateErr>>
         ELSE RateReturn(p, EmptyGroupRate, Wrap("wait for group to finish", err))
    /\ UNCHANGED <<cfg, eval, registry, started, inv, groupID, admitted, ret, details,
                   ctx, published, saveTask>>

\* lines 275-278
Details(p) ==
    /\ pc[p] = "details"
    /\ Calls(p, <<"Details">>)
    /\ \E ok \in BOOLEAN :
         IF ok
         THEN /\ details' = [details EXCEPT ![p] = OrderBook(groupID[p])]
              /\ Goto(p, "rateByPerson")
              /\ UNCHANGED <<groupRate, rateErr>>
         ELSE /\ RateReturn(p, EmptyGroupRate,
                            Wrap("get group details for calculating rates", ProviderError))
              /\ UNCHANGED details
    /\ UNCHANGED <<cfg, eval, registry, started, inv, groupID, admitted, ret, monitor, ctx,
                   published, saveTask>>

\* lines 280-283
RateByPerson(p) ==
    /\ pc[p] = "rateByPerson"
    /\ Calls(p, <<"RateByPerson">>)
    /\ \E ok \in BOOLEAN :
         IF ok THEN Goto(p, "deliveryRate") /\ UNCHANGED <<groupRate, rateErr>>
         ELSE RateReturn(p, EmptyGroupRate, Wrap("rate by person", ProviderError))
    /\ UNCHANGED <<cfg, eval, registry, started, inv, groupID, admitted, ret, details,
                   monitor, ctx, published, saveTask>>

\* a mutation of CalculateDeliveryRate: a failing CalculateDeliveryRate fails
\* getRateForGroup like the calls before it
CalculateDeliveryRateFatal(p) ==
    /\ pc[p] = "deliveryRate"
    /\ \E delivery \in SessionDeliveries :
         /\ Calls(p, <<IF delivery.err THEN "CalculateDeliveryRate error"
                        ELSE "CalculateDeliveryRate">>)
         /\ IF delivery.err
            THEN RateReturn(p, EmptyGroupRate, Wrap("delivery rate", ProviderError))
            ELSE RateReturn(p, RatesWithDelivery(details[p].rates, details[p].Host,
                                                 delivery, SessionDirectory),
                            NoError)
    /\ UNCHANGED <<cfg, eval, registry, started, inv, groupID, admitted, ret, details,
                   monitor, ctx, published, saveTask>>

\* lines 285-296
CalculateDeliveryRate(p) ==
    /\ pc[p] = "deliveryRate"
    /\ \E delivery \in SessionDeliveries :
         /\ IF delivery.err
            THEN Calls(p, <<"CalculateDeliveryRate error", "inform no delivery rate">>)
            ELSE Calls(p, <<"CalculateDeliveryRate">>)
         /\ RateReturn(p, RatesWithDelivery(details[p].rates, details[p].Host,
                                            delivery, SessionDirectory),
                       NoError)
    /\ UNCHANGED <<cfg, eval, registry, started, inv, groupID, admitted, ret, details,
                   monitor, ctx, published, saveTask>>

\* line 265, run when getRateForGroup returns: the deferred cancel ends the
\* wait's context and with it the monitor's, which line 267 derived from it
DeferredCancel(p) ==
    /\ ctx' = [ctx EXCEPT ![p] = IF @ = "live" THEN "done" ELSE @]
    /\ monitor' = [monitor EXCEPT ![p] = IF @ = "running" THEN "canceled" ELSE @]

\* a mutation of DeferSave: the order is saved only when the rates were computed
DeferSaveOnSuccess(p) ==
    /\ pc[p] = "deferSave"
    /\ DeferredCancel(p)
    /\ IF rateErr[p] = NoError
       THEN /\ saveTask' = [saveTask EXCEPT ![p] = Task(groupRate[p].Rates)]
            /\ Calls(p, <<"go saveOrderAsync">>)
       ELSE UNCHANGED <<saveTask, log>>
    /\ Goto(p, IF rateErr[p] = NoError THEN "publish" ELSE "rateError")
    /\ UNCHANGED <<cfg, eval, registry, started, inv, groupID, admitted, ret, details,
                   rateErr, groupRate, published>>

\* The deferred functions of getRateForGroup run when it returns, the last
\* deferred first: the cancel of line 265, then the function of lines 256-258,
\* which starts saveOrderAsync with the result getRateForGroup returns, on
\* every return.  The goroutine (lines 242-253) converts the order and hands
\* it to SaveOrder; it reads the rates it was started with and writes nothing
\* of the service, so it is recorded where it is started.
DeferSave(p) ==
    /\ pc[p] = "deferSave"
    /\ DeferredCancel(p)
    /\ saveTask' = [saveTask EXCEPT ![p] = Task(groupRate[p].Rates)]
    /\ Calls(p, <<"go saveOrderAsync">>)
    /\ Goto(p, IF rateErr[p] = NoError THEN "publish" ELSE "rateError")
    /\ UNCHANGED <<cfg, eval, registry, started, inv, groupID, admitted, ret, details,
                   rateErr, groupRate, published>>

\* ------------------------------------------- HandleLinkMessage, lines 93-130
\* the notice lines 95-105 send for an error of getRateForGroup
RateErrorNotice(err) ==
    IF Contains(err, "order canceled") THEN "inform order canceled"
    ELSE IF Contains(err, "context canceled while waiting")
    THEN "inform timed out waiting for ready"
    ELSE "inform rate error"

\* a mutation of HandleRateError: the error is returned to the caller
HandleRateErrorReturned(p) ==
    /\ pc[p] = "rateError"
    /\ Calls(p, <<RateErrorNotice(rateErr[p])>>)
    /\ Return(p, Wrap("get rate for group", rateErr[p]))
    /\ UNCHANGED <<cfg, eval, registry, started, inv, groupID, admitted, details,
                   rateErr, groupRate, monitor, ctx, published, saveTask>>

\* lines 94-106: every error of getRateForGroup ends the handling with a notice
\* and no error
HandleRateError(p) ==
    /\ pc[p] = "rateError"
    /\ Calls(p, <<RateErrorNotice(rateErr[p])>>)
    /\ Return(p, NoError)
    /\ UNCHANGED <<cfg, eval, registry, started, inv, groupID, admitted, details,
                   rateErr, groupRate, monitor, ctx, published, saveTask>>

\* a mutation of Publish: the message is built from rates computed anew from
\* the order details, without the delivery rate
PublishRecomputed(p) ==
    /\ pc[p] = "publish"
    /\ published' = [published EXCEPT ![p] =
                       Ptr(buildRatesMessage(
                               buildGroupRates(details[p].rates, details[p].Host,
                                               groupRate[p].DeliveryRate,
                                               SessionDirectory),
                               groupID[p]))]
    /\ \E ok \in BOOLEAN :
         IF ok THEN Calls(p, <<"inform rates">>) /\ Goto(p, "addDebts") /\ UNCHANGED ret
         ELSE /\ Calls(p, <<"inform rates", "inform rates error">>)
              /\ Return(p, Wrap("failed sending details message", ProviderError))
    /\ UNCHANGED <<cfg, eval, registry, started, inv, groupID, admitted, details,
                   rateErr, groupRate, monitor, ctx, saveTask>>

\* lines 108-112
Publish(p) ==
    /\ pc[p] = "publish"
    /\ published' = [published EXCEPT ![p] =
                       Ptr(buildRatesMessage(groupRate[p], groupID[p]))]
    /\ \E ok \in BOOLEAN :
         IF ok THEN Calls(p, <<"inform rates">>) /\ Goto(p, "addDebts") /\ UNCHANGED ret
         ELSE /\ Calls(p, <<"inform rates", "inform rates error">>)
              /\ Return(p, Wrap("failed sending details message", ProviderError))
    /\ UNCHANGED <<cfg, eval, registry, started, inv, groupID, admitted, details,
                   rateErr, groupRate, monitor, ctx, saveTask>>

\* lines 114-117
AddDebts(p) ==
    /\ pc[p] = "addDebts"
    /\ \E ok \in BOOLEAN :
         IF ok THEN Calls(p, <<"addDebts">>)
         ELSE Calls(p, <<"addDebts", "inform debts error">>)
    /\ Goto(p, "monitorDelivery")
    /\ UNCHANGED <<cfg, eval, registry, started, inv, groupID, admitted, ret, details,
                   rateErr, groupRate, monitor, ctx, published, saveTask>>

\* the call of monitorDelivery, how it ended and what it told the chat
MonitorCalls(res) == <<"monitorDelivery", res.ended>> \o res.notices

\* a mutation of MonitorDelivery: the timed-out error is returned to the caller
\* like any other (lines 122-125 are missing)
MonitorDeliveryTimeoutReturned(p) ==
    /\ pc[p] = "monitorDelivery"
    /\ \E res \in MonitorDeliveryResults :
         /\ Calls(p, MonitorCalls(res))
         /\ IF res.err = NoError THEN Return(p, NoError)
            ELSE Return(p, Wrap("error in waiting for order to finish", res.err))
    /\ UNCHANGED <<cfg, eval, registry, started, inv, groupID, admitted, details,
                   rateErr, groupRate, monitor, ctx, published, saveTask>>

\* lines 119-129
MonitorDelivery(p) ==
    /\ pc[p] = "monitorDelivery"
    /\ \E res \in MonitorDeliveryResults :
         IF res.err = NoError
         THEN /\ Calls(p, MonitorCalls(res))
              /\ Return(p, NoError)
         ELSE IF Contains(res.err, "context canceled while waiting")
         THEN /\ Calls(p, MonitorCalls(res) \o <<"inform timed out waiting for done">>)
              /\ Return(p, NoError)
         ELSE /\ Calls(p, MonitorCalls(res))
              /\ Return(p, Wrap("error in waiting for order to finish", res.err))
    /\ UNCHANGED <<cfg, eval, registry, started, inv, groupID, admitted, details,
                   rateErr, groupRate, monitor, ctx, published, saveTask>>

\* a mutation of DeferredDelete: the Delete is not deferred but the last
\* statement of the function, which only a handling that ends well reaches
DeferredDeleteAtEnd(p) ==
    IF admitted[p] /\ ret[p] = NoError THEN registry \ {IDKey(groupID[p])}
    ELSE registry

\* the registry after the deferred call of line 65, if it was registered:
\* currentlyWorkingOrders.Delete(groupID.ID)
DeferredDelete(p) ==
    IF admitted[p] THEN registry \ {IDKey(groupID[p])} ELSE registry

\* HandleLinkMessage returns to its caller: the deferred call runs and the
\* invocation's frame is gone
HandlerReturn(p) ==
    /\ pc[p] = "return"
    /\ registry' = DeferredDelete(p)
    /\ Goto(p, "idle")
    /\ inv' = [inv EXCEPT ![p] = 0]
    /\ groupID' = [groupID EXCEPT ![p] = Nil]
    /\ admitted' = [admitted EXCEPT ![p] = FALSE]
    /\ ret' = [ret EXCEPT ![p] = NoError]
    /\ log' = [log EXCEPT ![p] = <<>>]
    /\ details' = [details EXCEPT ![p] = NoDetails]
    /\ rateErr' = [rateErr EXCEPT ![p] = NoError]
    /\ groupRate' = [groupRate EXCEPT ![p] = EmptyGroupRate]
    /\ monitor' = [monitor EXCEPT ![p] = "none"]
    /\ ctx' = [ctx EXCEPT ![p] = "none"]
    /\ published' = [published EXCEPT ![p] = NilPtr]
    /\ saveTask' = [saveTask EXCEPT ![p] = NoTask]
    /\ UNCHANGED <<cfg, eval, started>>

Next ==
    \E p \in Procs :
        \/ Start(p)
        \/ Load(p)
        \/ Store(p)
        \/ AddReaction(p)
        \/ Gate(p)
        \/ Join(p)
        \/ StoreOrder(p)
        \/ Venue(p)
        \/ MarkAsReady(p)
        \/ StartMonitor(p)
        \/ Wait(p)
        \/ Details(p)
        \/ RateByPerson(p)
        \/ CalculateDeliveryRate(p)
        \/ DeferSave(p)
        \/ HandleRateError(p)
        \/ Publish(p)
        \/ AddDebts(p)
        \/ MonitorDelivery(p)
        \/ HandlerReturn(p)

Spec == Init /\ [][Next]_vars

\* ------------------------------------------- the rate computation on its own
\* the arguments of one evaluation of lines 285-296: the map RateByPerson
\* returned, details.Host, what CalculateDeliveryRate returned, the directory
RateCalls ==
    [fn : {"getRateForGroup"}, rates : RateMaps, Host : Names,
     delivery : Deliveries, dir : Directories]

InitRates ==
    /\ Idle
    /\ call \in RateCalls
    /\ result = NoResult

\* lines 285-296 with buildGroupRates
ComputeRates ==
    /\ call.fn = "getRateForGroup"
    /\ result = NoResult
    /\ result' = [fn |-> "getRateForGroup",
                  groupRate |-> RatesWithDelivery(call.rates, call.Host,
                                                  call.delivery, call.dir)]
    /\ UNCHANGED <<cfg, registry, started, pc, frame, call>>

NextRates == ComputeRates

SpecRates == InitRates /\ [][NextRates]_vars

\* ------------------------------------------- the schedule gate on its own
\* hours and minutes of the cutoffs and of the clock readings
GateHours == {0, 17, 18, 23}

GateMinutes == {0, 1, 59}

\* h.dontJoinAfterTZ: none, a zone one hour east, a zone two hours west
GateZones == {NilPtr, Ptr(60), Ptr(MinutesPerDay - 120)}

\* one evaluation of shouldHandleOrder: the configuration and time.Now()
GateCalls ==
    [fn : {"shouldHandleOrder"},
     dontJoinAfter : {NoCutoff} \cup {Cutoff(h, m) : h \in GateHours, m \in GateMinutes},
     dontJoinAfterTZ : GateZones,
     now : {Time(h, m) : h \in GateHours, m \in GateMinutes}]

InitGate ==
    /\ Idle
    /\ call \in GateCalls
    /\ result = NoResult

EvalGate ==
    /\ call.fn = "shouldHandleOrder"
    /\ result = NoResult
    /\ result' = [fn |-> "shouldHandleOrder",
                  handle |-> shouldHandleOrder(call.dontJoinAfter,
                                               call.dontJoinAfterTZ, call.now)]
    /\ UNCHANGED <<cfg, registry, started, pc, frame, call>>

NextGate == EvalGate

SpecGate == InitGate /\ [][NextGate]_vars

\* ------------------------------------------- the link parser on its own
\* URLs of links: a group link, a join link ending in "/", a venue page, and
\* a page under a group (the pattern is anchored at the end)
LinkURLs ==
    { Url(<<"en", "group", "A1">>, FALSE),
      Url(<<"group-order", "B2", "join">>, TRUE),
      Url(<<"en", "venue">>, FALSE),
      Url(<<"group", "A1", "menu">>, FALSE) }

LinkPool == {Link(d, u) : d \in {"wolt.com", "example.com"}, u \in LinkURLs}

\* req.Links: the links of one message, in order
LinkLists == UNION {[1..n -> LinkPool] : n \in 0..MaxLinks}

LinkCalls == [fn : {"getWoltGroupID"}, links : LinkLists]

InitLinks ==
    /\ Idle
    /\ call \in LinkCalls
    /\ result = NoResult

EvalLinks ==
    /\ call.fn = "getWoltGroupID"
    /\ result = NoResult
    /\ result' = [fn |-> "getWoltGroupID", id |-> getWoltGroupID(call.links)]
    /\ UNCHANGED <<cfg, registry, started, pc, frame, call>>

NextLinks == EvalLinks

SpecLinks == InitLinks /\ [][NextLinks]_vars

\* ------------------------------------------------------- properties
Has(s, x) == \E i \in 1..Len(s) : s[i] = x

Count(s, x) == Cardinality({i \in 1..Len(s) : s[i] = x})

\* the invocation has passed the check of line 60 and has not yet returned
PastAdmission(p) ==
    /\ pc[p] \notin {"idle", "load"}
    /\ pc[p] = "return" => admitted[p]

\* C1: of the invocations that carry the same identifier, at most one is past
\* the admission check at any time.
C1_OneAdmittedPerIdentifier ==
    \A p, q \in Procs :
        (p # q /\ PastAdmission(p) /\ PastAdmission(q)) => groupID[p] # groupID[q]

\* C2: an admitted invocation ends only by returning, and its return removes
\* the entry groupID.ID, so that the identifier is free right after the return;
\* the entry of an identifier is removed by nothing but the return of an
\* invocation admitted for it.
C2_DeleteOnEveryReturn ==
    [][ /\ \A p \in Procs :
              (admitted[p] /\ ~admitted'[p]) =>
                  /\ pc[p] = "return"
                  /\ registry' = registry \ {IDKey(groupID[p])}
        /\ \A id \in OrderIDs :
              (IDKey(id) \in registry /\ IDKey(id) \notin registry') =>
                  \E p \in Procs : /\ pc[p] = "return" /\ pc'[p] = "idle"
                                   /\ admitted[p] /\ groupID[p] = id ]_vars

\* C2 witness: the second invocation is admitted for the identifier of the
\* first, which joined the order and has returned.
C2_LaterInvocationAdmitted ==
    \E p \in Procs :
        /\ inv[p] = 2 /\ admitted[p]
        /\ PtrKey(groupID[p], 1) \in registry
        /\ \A q \in Procs \ {p} : pc[q] = "idle"

\* C3: whenever no invocation is in progress the registry is empty.
C3_RegistryEmptyWhenIdle ==
    (\A p \in Procs : pc[p] = "idle") => registry = {}

\* C4: an invocation that finds its identifier in the registry returns nil
\* having called no collaborator, started no goroutine and left the registry
\* as it was, and its return leaves the registry as it was too.
C4_RejectedNoSideEffect ==
    [][ \A p \in Procs :
          /\ (pc[p] = "load" /\ IDKey(groupID[p]) \in registry /\ pc'[p] # "load") =>
                 /\ pc'[p] = "return"
                 /\ ret'[p] = NoError
                 /\ log'[p] = <<>>
                 /\ saveTask'[p] = NoTask
                 /\ monitor'[p] = "none"
                 /\ ~admitted'[p]
                 /\ registry' = registry
          /\ (pc[p] = "return" /\ ~admitted[p] /\ pc'[p] = "idle") =>
                 registry' = registry ]_vars

\* C4 witness: an invocation with an identifier is returning without having
\* been admitted.
C4_Rejected ==
    \E p \in Procs : pc[p] = "return" /\ groupID[p] # Nil /\ ~admitted[p]

\* getRateForGroup was entered and has returned
RateReturned(p) ==
    /\ Has(log[p], "MarkAsReady")
    /\ pc[p] \notin {"startMonitor", "wait", "details", "rateByPerson",
                     "deliveryRate", "deferSave"}

WaitCanceledOrTimedOut(p) ==
    \/ Contains(rateErr[p], "order canceled")
    \/ Contains(rateErr[p], "context canceled while waiting")

\* C6: when the wait ends canceled or timed out, the invocation publishes no
\* rates, tracks no debts, monitors no delivery, and returns nil after exactly
\* one notice, the one of its case.
C6_CancelOrTimeoutIsSoft ==
    \A p \in Procs :
        WaitCanceledOrTimedOut(p) =>
            /\ pc[p] \in {"deferSave", "rateError", "return"}
            /\ ~Has(log[p], "inform rates") /\ published[p] = NilPtr
            /\ ~Has(log[p], "addDebts")
            /\ ~Has(log[p], "monitorDelivery")
            /\ ~Has(log[p], "inform rate error")
            /\ pc[p] = "return" =>
                 /\ ret[p] = NoError
                 /\ Count(log[p], "inform order canceled") =
                      (IF Contains(rateErr[p], "order canceled") THEN 1 ELSE 0)
                 /\ Count(log[p], "inform timed out waiting for ready") =
                      (IF Contains(rateErr[p], "order canceled") THEN 0 ELSE 1)

\* C6 witness: an invocation whose wait timed out is returning.
C6_TimedOutReturning ==
    \E p \in Procs :
        pc[p] = "return" /\ Contains(rateErr[p], "context canceled while waiting")

\* what a person took according to the order details of the invocation
RawAmount(p, person) ==
    IF person \in DOMAIN details[p].rates THEN details[p].rates[person] ELSE 0

\* C7: when only the delivery-rate lookup fails, getRateForGroup succeeds with
\* DeliveryRate 0 and every amount equal to the raw amount, one warning is
\* sent, saveOrderAsync is started with these rates and the rates message
\* built from them is handed to the chat.
C7_NoDeliveryRateDegrades ==
    \A p \in Procs :
        Has(log[p], "CalculateDeliveryRate error") =>
            /\ rateErr[p] = NoError
            /\ Count(log[p], "inform no delivery rate") = 1
            /\ groupRate[p].DeliveryRate = 0
            /\ Len(groupRate[p].Rates) > 0
            /\ \A i \in 1..Len(groupRate[p].Rates) :
                 groupRate[p].Rates[i].Amount =
                     RawAmount(p, groupRate[p].Rates[i].WoltName)
            /\ pc[p] # "deferSave" => saveTask[p] = Task(groupRate[p].Rates)
            /\ pc[p] \notin {"deferSave", "publish"} =>
                 /\ Count(log[p], "inform rates") = 1
                 /\ published[p] = Ptr(buildRatesMessage(groupRate[p], groupID[p]))
                 /\ published[p][1].header.delivery = 0

\* C7 witness: an invocation whose delivery-rate lookup failed has published
\* and is returning.
C7_DegradedPublished ==
    \E p \in Procs :
        /\ pc[p] = "return"
        /\ Has(log[p], "CalculateDeliveryRate error")
        /\ Has(log[p], "monitorDelivery")

\* C8 as claimed: no matching link, an identifier already being handled and a
\* time outside the schedule window all return no error.
C8_NonActionableNoError ==
    \A p \in Procs :
        (pc[p] = "return"
         /\ (groupID[p] = Nil \/ ~admitted[p] \/ Has(log[p], "inform too late")))
        => ret[p] = NoError

\* C8 amended: no matching link and an identifier already being handled return
\* no error; a time outside the schedule window returns errNotInTime, or
\* errWontJoin when the notice could not be sent.
C8_OnlyGateReturnsError ==
    \A p \in Procs :
        pc[p] = "return" =>
            /\ (groupID[p] = Nil \/ ~admitted[p]) => ret[p] = NoError
            /\ Has(log[p], "inform too late") => ret[p] \in {errNotInTime, errWontJoin}

\* C8 witness: one invocation returns errNotInTime while another, not admitted
\* for the same identifier, returns too.
C8_GateAndDuplicate ==
    \E p, q \in Procs :
        /\ pc[p] = "return" /\ Has(log[p], "inform too late") /\ ret[p] = errNotInTime
        /\ pc[q] = "return" /\ groupID[q] = groupID[p] /\ ~admitted[q]

\* C14: once an invocation has handed a rates message to the chat, the rates
\* its saveOrderAsync was started with are the rates getRateForGroup returned,
\* and the message renders exactly them: the same people in the same order
\* with the same amounts.
C14_PersistedIsPublished ==
    \A p \in Procs :
        published[p] # NilPtr =>
            LET R == saveTask[p].rates
                M == published[p][1].lines
            IN  /\ saveTask[p].state = "started"
                /\ R = groupRate[p].Rates
                /\ Len(M) = Len(R)
                /\ \A i \in 1..Len(R) :
                      /\ M[i].userID[Len(M[i].userID)] = R[i].WoltName
                      /\ M[i].amount = Format2(R[i].Amount)

\* C14 witness: an invocation that published rates with a delivery rate is
\* returning after the delivery monitoring.
C14_PublishedWithDelivery ==
    \E p \in Procs :
        /\ pc[p] = "return" /\ published[p] # NilPtr
        /\ published[p][1].header.delivery = MaxFee
        /\ Has(log[p], "monitorDelivery")

\* C15: the venue monitor runs only while the invocation is in the wait, with
\* the wait's context alive: it is canceled when the wait has ended, however
\* it ended, hence before the details are fetched, before rates are published
\* and before getRateForGroup returns; its context never outlives the wait's;
\* and an invocation starts it at most once.
C15_MonitorCanceledWithWait ==
    \A p \in Procs :
        /\ monitor[p] = "running" => (ctx[p] = "live" /\ pc[p] = "wait")
        /\ ctx[p] = "done" => monitor[p] = "canceled"
        /\ published[p] # NilPtr => monitor[p] = "canceled"
        /\ pc[p] \in {"details", "deferSave", "rateError", "return"} =>
              /\ Count(log[p], "go monitorVenue") <= 1
              /\ (monitor[p] # "none") = Has(log[p], "go monitorVenue")
              /\ Has(log[p], "WaitUntilFinished") => monitor[p] = "canceled"

\* C15 witness: the host canceled the order during the wait; getRateForGroup
\* has returned and the monitor is canceled.
C15_CanceledAfterHostCancel ==
    \E p \in Procs :
        /\ pc[p] = "rateError" /\ Contains(rateErr[p], "order canceled")
        /\ monitor[p] = "canceled" /\ ctx[p] = "done"

\* the calls of an invocation that the claim says are made at most once
OnceCalls ==
    {"joinGroupOrder", "MarkAsReady", "WaitUntilFinished", "inform rates",
     "addDebts", "monitorDelivery"}

\* C16: by the time it returns an invocation has called joinGroupOrder,
\* MarkAsReady, WaitUntilFinished, the rates publish, addDebts and
\* monitorDelivery at most once each, and MarkAsReady only after a join that
\* succeeded and before the wait.
C16_NothingRetried ==
    \A p \in Procs :
        pc[p] = "return" =>
            LET L == log[p]
            IN  \A i \in 1..Len(L) :
                  /\ L[i] \in OnceCalls => \A j \in 1..(i - 1) : L[j] # L[i]
                  /\ L[i] = "MarkAsReady" =>
                        /\ \E j \in 1..(i - 1) : L[j] = "joinGroupOrder"
                        /\ \A j \in 1..Len(L) : L[j] # "joinGroupOrder error"
                  /\ L[i] = "WaitUntilFinished" =>
                        \E j \in 1..(i - 1) : L[j] = "MarkAsReady"

\* C16 witness: an invocation that made all six calls is returning.
C16_AllStepsOnce ==
    \E p \in Procs :
        /\ pc[p] = "return"
        /\ \A c \in OnceCalls : Count(log[p], c) = 1

\* C17: an invocation whose first AddReaction, join or rates publish failed
\* returns an error and has taken none of the steps that follow:
\* nothing after the failed reaction; after the failed join one notice and no
\* MarkAsReady, no publish and no saveOrderAsync; after the failed publish no
\* addDebts and no monitorDelivery.
C17_FailureAborts ==
    \A p \in Procs :
        pc[p] = "return" =>
            /\ Has(log[p], "AddReaction error") =>
                  /\ ret[p] # NoError
                  /\ log[p] = <<"AddReaction", "AddReaction error">>
            /\ Has(log[p], "joinGroupOrder error") =>
                  /\ ret[p] # NoError
                  /\ Count(log[p], "inform join error") = 1
                  /\ ~Has(log[p], "MarkAsReady")
                  /\ ~Has(log[p], "inform rates") /\ published[p] = NilPtr
                  /\ ~Has(log[p], "go saveOrderAsync") /\ saveTask[p] = NoTask
            /\ Has(log[p], "inform rates error") =>
                  /\ ret[p] # NoError
                  /\ ~Has(log[p], "addDebts")
                  /\ ~Has(log[p], "monitorDelivery")

\* C17 witness: one invocation is returning after a failed join, another
\* after a failed publish.
C17_JoinAndPublishFailed ==
    \E p, q \in Procs :
        /\ pc[p] = "return" /\ Has(log[p], "joinGroupOrder error")
        /\ pc[q] = "return" /\ Has(log[q], "inform rates error")

\* the delivery monitoring ended on its deadline or on a canceled order
DeliveryTimedOutOrCanceled(p) ==
    \/ Has(log[p], "monitorDelivery: deadline elapsed")
    \/ Has(log[p], "monitorDelivery: order canceled")

C19_AbsentMeansNotHandled ==
    \A id \in OrderIDs :
        IDKey(id) \notin registry =>
            ~\E p \in Procs : admitted[p] /\ groupID[p] = id /\ pc[p] # "idle"

\* ------------------------------------------- properties of the rate computation
Computed == result.fn = "getRateForGroup"

\* what a person took according to the map of the evaluation
RawOf(person) ==
    IF person \in DOMAIN call.rates THEN call.rates[person] ELSE 0

\* C9 as claimed: with a delivery rate, every entry, the added host's too, is
\* the raw amount plus the rate divided by the number of entries.
C9_AllShareDelivery ==
    (Computed /\ ~call.delivery.err) =>
        LET R == result.groupRate.Rates
        IN  \A i \in 1..Len(R) :
              R[i].Amount * Len(R) =
                  RawOf(R[i].WoltName) * Len(R) + call.delivery.rate * Scale

\* C9 amended: with a delivery rate, the entry of every key of the map is the
\* raw amount plus the rate divided by the number of keys, and the entry of a
\* host who is not a key is 0.
C9_KeysShareDelivery ==
    (Computed /\ ~call.delivery.err) =>
        LET R == result.groupRate.Rates
            n == Cardinality(DOMAIN call.rates)
        IN  \A i \in 1..Len(R) :
              IF R[i].WoltName \in DOMAIN call.rates
              THEN R[i].Amount * n =
                       call.rates[R[i].WoltName] * n + call.delivery.rate * Scale
              ELSE R[i].WoltName = call.Host /\ R[i].Amount = 0

\* C9 witness: a delivery rate was split and the host is not a key of the map.
C9_HostNotAKey ==
    /\ Computed /\ ~call.delivery.err /\ call.delivery.rate > 0
    /\ DOMAIN call.rates # {} /\ call.Host \notin DOMAIN call.rates

\* C10: the list holds one entry per name of the map and for the host, in
\* strictly ascending order of name, whatever the directory answers.
C10_RatesSortedAndComplete ==
    Computed =>
        LET R == result.groupRate.Rates
            people == DOMAIN call.rates \cup {call.Host}
        IN  /\ {R[i].WoltName : i \in 1..Len(R)} = people
            /\ Len(R) = Cardinality(people)
            /\ \A i \in 1..(Len(R) - 1) : StrLess(R[i].WoltName, R[i + 1].WoltName)

\* C10 witness: three people, the host added, and a directory that fails for
\* the host.
C10_ThreePeople ==
    /\ Computed /\ Len(result.groupRate.Rates) = 3
    /\ call.Host \notin DOMAIN call.rates /\ call.dir[call.Host].err

\* C11 as claimed: a person for whom the directory returns no user has no
\* user, one for whom it returns users has the first returned user, and the
\* host's user is the HostUser as well.
C11_FirstReturnedUserAttached ==
    Computed =>
        LET gr == result.groupRate
            First(person) ==
                IF call.dir[person].n = 0 THEN NilPtr ELSE Ptr(UserOf(person, 1))
        IN  /\ \A i \in 1..Len(gr.Rates) :
                  ~call.dir[gr.Rates[i].WoltName].err =>
                      gr.Rates[i].User = First(gr.Rates[i].WoltName)
            /\ ~call.dir[call.Host].err => gr.HostUser = First(call.Host)

\* ------------------------------------------- properties of the schedule gate
GateEvaluated == result.fn = "shouldHandleOrder"

\* minutes since midnight of the reading of time.Now() in the configured zone
LocalMinutes ==
    IF call.dontJoinAfterTZ = NilPtr THEN call.now.hour * 60 + call.now.minute
    ELSE (call.now.hour * 60 + call.now.minute + call.dontJoinAfterTZ[1])
             % MinutesPerDay

\* C12: with no cutoff shouldHandleOrder is true at every time; with a cutoff
\* hh:mm it is false exactly when the time of day in the configured zone has
\* reached hh:mm.
C12_FalseFromCutoffOn ==
    GateEvaluated =>
        result.handle =
            (IF call.dontJoinAfter.zero THEN TRUE
             ELSE LocalMinutes <
                      call.dontJoinAfter.hour * 60 + call.dontJoinAfter.minute)

\* C12 witness: the cutoff is 18:00, it is 18:00 in the configured zone
\* (17:00 on the clock) and the order is not handled.
C12_AtCutoffMinute ==
    /\ GateEvaluated /\ call.dontJoinAfter = Cutoff(18, 0)
    /\ call.dontJoinAfterTZ = Ptr(60) /\ call.now = Time(17, 0)
    /\ result.handle = FALSE

\* ------------------------------------------- properties of the link parser
LinksEvaluated == result.fn = "getWoltGroupID"

\* the link is of the provider's domain and its URL matches the pattern
Qualifies(link) == link.Domain = "wolt.com" /\ groupLinkRe(link.URL) # Nil

\* C13: getWoltGroupID returns the identifier of the qualifying link of lowest
\* index, and no identifier when no link qualifies.
C13_FirstQualifyingLink ==
    LinksEvaluated =>
        LET L == call.links
            Q == {i \in 1..Len(L) : Qualifies(L[i])}
        IN  IF Q = {} THEN result.id = Nil
            ELSE LET first == CHOOSE i \in Q : \A j \in Q : i <= j
                 IN  result.id = groupLinkRe(L[first].URL)

\* C13 witness: a matching URL of another domain, then a wolt.com link that
\* does not match, then the link whose identifier is returned.
C13_SkipsThenFinds ==
    /\ LinksEvaluated /\ Len(call.links) = 3
    /\ call.links[1].Domain # "wolt.com" /\ groupLinkRe(call.links[1].URL) = "A1"
    /\ call.links[2].Domain = "wolt.com" /\ groupLinkRe(call.links[2].URL) = Nil
    /\ Qualifies(call.links[3]) /\ result.id = "B2"

\* ------------------------------------------- conservation of money
RECURSIVE SumAmounts(_)
SumAmounts(R) == IF R = <<>> THEN 0 ELSE R[1].Amount + SumAmounts(Tail(R))

RECURSIVE SumRaw(_, _)
SumRaw(m, S) ==
    IF S = {} THEN 0
    ELSE LET k == CHOOSE x \in S : TRUE IN m[k] + SumRaw(m, S \ {k})

\* C20 as claimed: the amounts of the list add up to the raw amounts plus the
\* DeliveryRate of the GroupRate, for every map, the empty one too.
C20_MoneyConserved ==
    Computed =>
        SumAmounts(result.groupRate.Rates) =
            SumRaw(call.rates, DOMAIN call.rates)
                + result.groupRate.DeliveryRate * Scale

====
